---- MODULE Spec2Model ----
(***************************************************************************)
(* The whiteboard synchronisation relay of server/server.js: several app   *)
(* instances, each with an in-memory board store, a set of WebSocket       *)
(* clients, a Redis publisher/subscriber pair and a Postgres event log.    *)
(* Line numbers refer to the second (Prometheus) version of the server,    *)
(* src/server/server.js lines 194-442; the first version (lines 1-192)     *)
(* has the same relay logic.                                               *)
(*                                                                         *)
(* A JavaScript handler runs to its first await without interruption, so   *)
(* each handler is one action up to that await; the continuations after    *)
(* `await redisPub.publish` and `await pool.query` are separate actions.   *)
(*                                                                         *)
(* Two specifications share the actions.  Spec is the whole relay: sockets *)
(* come and go, clients and the channel send anything, MaxUpdates updates  *)
(* are accepted.  SpecPipeline is the update pipeline alone: the sockets   *)
(* are connected and stay, only snapshot traffic flows, and MaxPipeline    *)
(* updates are accepted, so that two handlers are suspended at once.       *)
(***************************************************************************)
EXTENDS Integers, Sequences, FiniteSets, TLC

\* ---------------------------------------------------------------- bounds
MaxConns == 3      \* WebSocket connections ever opened, over all instances
MaxUpdates == 1    \* client snapshot updates accepted under Spec
MaxPipeline == 2   \* client snapshot updates accepted under SpecPipeline

\* ------------------------------------------------------ values and payloads
Instances == {"A", "B"}            \* the NODE_ID of each running instance
Peer == "X"                        \* the NODE_ID of an instance that is not modelled
ConnIds == 1 .. MaxConns           \* the sockets, numbered as they connect
\* the instance a socket connects to: every third one to B, the others to A
Home(c) == IF c % 3 = 0 THEN "B" ELSE "A"
NoConn == 0                        \* no socket (broadcast without `except`)
Undef == "undef"                   \* JavaScript undefined / field absent
Null == "null"                     \* JavaScript null
NoEntry == "none"                  \* the Map has no entry for the key
DefaultBoard == "default"
BoardKeys == {DefaultBoard, "b1"}  \* keys the store can hold
\* the snapshot document of the u-th accepted update: each one a new document
SnapName == <<"v1", "v2", "v3", "v4">>
PeerSnap == "vx"                   \* a document published by the peer
Falsies == {Undef, Null}

\* readyState of a ws socket (0 stands for "not connected yet")
CONNECTING == 0
OPEN == 1
CLOSING == 2
CLOSED == 3

\* A payload is the text on the wire, described by what JSON.parse makes of
\* it: kind "bad" is text that is not JSON, "null" the text null, "obj" an
\* object with the four fields the relay looks at (Undef: the field is
\* absent).  uid and org are not on the wire: they name the accepted client
\* update the text was built from (0 when there is none) and the instance
\* that accepted it.
Payload(k, t, b, s, n, u, o) ==
    [kind |-> k, type |-> t, boardId |-> b, snapshot |-> s, nodeId |-> n,
     uid |-> u, org |-> o]
NoPayload == Payload("none", Undef, Undef, Undef, Undef, 0, Undef)
BadJson == Payload("bad", Undef, Undef, Undef, Undef, 0, Undef)
JsonNull == Payload("null", Undef, Undef, Undef, Undef, 0, Undef)

\* what a WebSocket client can send that is neither an update nor a request
ClientOther == {BadJson, JsonNull, Payload("obj", Undef, Undef, Undef, Undef, 0, Undef)}
ClientRequests ==
    {Payload("obj", "request_snapshot", b, Undef, Undef, 0, Undef) : b \in {Undef, "b1"}}
\* the snapshot updates a client can send when u - 1 were accepted before
ClientSnapshots(u) ==
    {Payload("obj", "snapshot", b, s, n, 0, Undef) :
        b \in {Undef, "b1"}, s \in {SnapName[u], Null}, n \in {Undef, "B"}}

\* a snapshot update the peer instance has published
PeerRaw == {Payload("obj", "snapshot", Undef, PeerSnap, Peer, 0, Peer)}
\* what else a publisher can put on the Redis channel
ForeignRaw ==
    {BadJson, JsonNull}
    \cup {Payload("obj", "other", Undef, Undef, n, 0, Undef) : n \in {Undef} \cup Instances}

\* ------------------------------------------------------------ pure helpers
\* JSON.parse throws a SyntaxError on text that is not JSON
ParseThrows(raw) == raw.kind = "bad"
\* JSON.parse otherwise yields the value the text denotes
JSONparse(raw) == raw
\* msg.x throws a TypeError when msg is null
FieldThrows(msg) == msg.kind = "null"
\* msg.x: undefined when the field is absent
Field(msg, f) == IF msg.kind = "obj" THEN msg[f] ELSE Undef
\* JavaScript truthiness of a snapshot or an id
Truthy(v) == v \notin Falsies
\* a key that ignores msg.boardId
BoardOfAlwaysDefault(msg) == DefaultBoard
\* msg.boardId || 'default'
BoardOf(msg) == IF Truthy(Field(msg, "boardId")) THEN Field(msg, "boardId") ELSE DefaultBoard
\* a lookup that answers an empty document when there is no entry
BoardsGetOrEmpty(bs, id) == IF bs[id] = NoEntry THEN "empty" ELSE bs[id]
\* boards.get(id): undefined without an entry
BoardsGet(bs, id) == IF bs[id] = NoEntry THEN Undef ELSE bs[id]
\* a store that keeps the first snapshot of a key
BoardsSetIfAbsent(bs, id, v) == IF bs[id] = NoEntry THEN [bs EXCEPT ![id] = v] ELSE bs
\* boards.set(id, v)
BoardsSet(bs, id, v) == [bs EXCEPT ![id] = v]
\* an origin test that compares against the wrong side
IsOwnMessageInverted(msg, self) == Truthy(Field(msg, "nodeId")) /\ Field(msg, "nodeId") # self
\* msg.nodeId && msg.nodeId === NODE_ID
IsOwnMessage(msg, self) == Truthy(Field(msg, "nodeId")) /\ Field(msg, "nodeId") = self
\* a tagging that lets a nodeId the client supplied stand
ExtendedMsgKeepsClientTag(msg, self) ==
    IF Truthy(Field(msg, "nodeId")) THEN msg ELSE [msg EXCEPT !.nodeId = self]
\* { ...msg, nodeId: NODE_ID }
ExtendedMsg(msg, self) == [msg EXCEPT !.nodeId = self]
\* JSON.stringify({ type: 'snapshot', boardId, snapshot })
ReplyStr(boardId, snapshot) == Payload("obj", "snapshot", boardId, snapshot, Undef, 0, Undef)

\* a loop test that forgets the socket's state
EligibleIgnoringState(c, except, rs) == c # except
\* a loop test that forgets the excluded sender
EligibleAnyone(c, except, rs) == rs[c] = OPEN
\* the test in the loop body of broadcast
Eligible(c, except, rs) == c # except /\ rs[c] = OPEN

\* broadcast(msg, except): walk wss.clients in insertion order and send to each
\* eligible socket.  failing is the socket whose send raises now (NoConn: none
\* does); that send ends the loop and the exception leaves broadcast.
RECURSIVE BroadcastFrom(_, _, _, _, _)
BroadcastFrom(cs, k, except, rs, failing) ==
    IF k > Len(cs) THEN [sent |-> <<>>, threw |-> FALSE]
    ELSE IF ~Eligible(cs[k], except, rs)
         THEN BroadcastFrom(cs, k + 1, except, rs, failing)
    ELSE IF cs[k] = failing THEN [sent |-> <<>>, threw |-> TRUE]
    ELSE LET rest == BroadcastFrom(cs, k + 1, except, rs, failing)
         IN  [sent |-> <<cs[k]>> \o rest.sent, threw |-> rest.threw]
\* a broadcast that stops at the raising send and returns as if it were done
broadcastStopsQuietly(cs, except, rs, failing) ==
    [BroadcastFrom(cs, 1, except, rs, failing) EXCEPT !.threw = FALSE]
broadcast(cs, except, rs, failing) == BroadcastFrom(cs, 1, except, rs, failing)

Range(s) == {s[k] : k \in 1 .. Len(s)}
Remove(s, c) == SelectSeq(s, LAMBDA x : x # c)

\* ------------------------------------------------------------------- state
VARIABLES
    boards,      \* boards[i][id]: the Map of latest snapshots of instance i
    clients,     \* clients[i]: wss.clients of instance i, in insertion order
    readyState,  \* readyState[c] of socket c
    gauge,       \* gauge[i]: connectionGauge of instance i
    tasks,       \* the ws message handlers suspended at an await
    bus,         \* the texts the Redis channel carries to its subscribers
    accepted,    \* the number of client updates accepted so far (history)
    pgLog,       \* the INSERT INTO events calls issued, in order (history)
    lastVal,     \* lastVal[i][id]: the snapshot of the last update applied (history)
    ev           \* what the last handler run did (history)

vars == <<boards, clients, readyState, gauge, tasks, bus, accepted, pgLog, lastVal, ev>>

\* op: the handler; inst, conn: where it ran; raw: the text it was given;
\* out: the text it handed to send; sends: the sockets whose send returned, in
\* order; threw: an exception left the handler; pub: the texts it handed to
\* redisPub.publish; ins: the rows it handed to pool.query; before: the
\* instance's Map before the run
Ev(op, i, c, raw, sends, out, threw, pub, ins, before) ==
    [op |-> op, inst |-> i, conn |-> c, raw |-> raw, sends |-> sends, out |-> out,
     threw |-> threw, pub |-> pub, ins |-> ins, before |-> before]
EmptyBoards == [b \in BoardKeys |-> NoEntry]
NoEv == Ev("none", "A", NoConn, NoPayload, <<>>, NoPayload, FALSE, <<>>, <<>>, EmptyBoards)

\* the state after main() has run: no client yet
Init ==
    /\ boards = [i \in Instances |-> EmptyBoards]
    /\ clients = [i \in Instances |-> <<>>]
    /\ readyState = [c \in ConnIds |-> CONNECTING]
    /\ gauge = [i \in Instances |-> 0]
    /\ tasks = {}
    /\ bus = {}
    /\ accepted = 0
    /\ pgLog = <<>>
    /\ lastVal = [i \in Instances |-> [b \in BoardKeys |-> NoEntry]]
    /\ ev = NoEv

\* -------------------------------------------------------------- lifecycle
\* wss.on('connection'): the socket joins wss.clients, the gauge goes up
Connect(c) ==
    /\ readyState[c] = CONNECTING
    /\ \A d \in ConnIds : d < c => readyState[d] # CONNECTING
    /\ readyState' = [readyState EXCEPT ![c] = OPEN]
    /\ clients' = [clients EXCEPT ![Home(c)] = Append(@, c)]
    /\ gauge' = [gauge EXCEPT ![Home(c)] = @ + 1]
    /\ ev' = NoEv
    /\ UNCHANGED <<boards, tasks, bus, accepted, pgLog, lastVal>>

\* the closing handshake has begun: the socket is still in wss.clients
BeginClose(c) ==
    /\ readyState[c] = OPEN
    /\ readyState' = [readyState EXCEPT ![c] = CLOSING]
    /\ ev' = NoEv
    /\ UNCHANGED <<boards, clients, gauge, tasks, bus, accepted, pgLog, lastVal>>

\* ws.on('close'): the socket has left wss.clients, the gauge goes down
Close(c) ==
    /\ readyState[c] \in {OPEN, CLOSING}
    /\ readyState' = [readyState EXCEPT ![c] = CLOSED]
    /\ clients' = [clients EXCEPT ![Home(c)] = Remove(@, c)]
    /\ gauge' = [gauge EXCEPT ![Home(c)] = @ - 1]
    /\ ev' = NoEv
    /\ UNCHANGED <<boards, tasks, bus, accepted, pgLog, lastVal>>

\* ------------------------------------------------- ws.on('message') handler
\* a handler without the try/catch around JSON.parse
WsBadJsonUncaught(i, c, raw) ==
    /\ ParseThrows(raw)
    /\ ev' = Ev("ws", i, c, raw, <<>>, NoPayload, TRUE, <<>>, <<>>, boards[i])
    /\ UNCHANGED <<boards, tasks, accepted, lastVal>>

\* the try/catch around JSON.parse: the text is logged and dropped
WsBadJson(i, c, raw) ==
    /\ ParseThrows(raw)
    /\ ev' = Ev("ws", i, c, raw, <<>>, NoPayload, FALSE, <<>>, <<>>, boards[i])
    /\ UNCHANGED <<boards, tasks, accepted, lastVal>>

\* msg is null: reading msg.type throws and nothing catches it
WsTypeError(i, c, raw) ==
    /\ ~ParseThrows(raw)
    /\ FieldThrows(JSONparse(raw))
    /\ ev' = Ev("ws", i, c, raw, <<>>, NoPayload, TRUE, <<>>, <<>>, boards[i])
    /\ UNCHANGED <<boards, tasks, accepted, lastVal>>

\* the request_snapshot branch: reply to the requester when the stored
\* snapshot is truthy; the reply's send may raise
WsRequest(i, c, raw, failing) ==
    /\ ~ParseThrows(raw)
    /\ ~FieldThrows(JSONparse(raw))
    /\ Field(JSONparse(raw), "type") = "request_snapshot"
    /\ LET msg == JSONparse(raw)
           boardId == BoardOf(msg)
           snapshot == BoardsGet(boards[i], boardId)
           sending == Truthy(snapshot)
           threw == sending /\ c = failing
       IN  ev' = Ev("ws", i, c, raw,
                    IF sending /\ ~threw THEN <<c>> ELSE <<>>,
                    IF sending THEN ReplyStr(boardId, snapshot) ELSE NoPayload,
                    threw, <<>>, <<>>, boards[i])
    /\ UNCHANGED <<boards, tasks, accepted, lastVal>>

\* the snapshot branch up to its first await: store, tag, broadcast to the
\* others, issue the publish.  An exception from broadcast leaves the handler
\* before the publish is issued.
WsSnapshot(i, c, raw, failing) ==
    /\ ~ParseThrows(raw)
    /\ ~FieldThrows(JSONparse(raw))
    /\ Field(JSONparse(raw), "type") = "snapshot"
    /\ LET msg == JSONparse(raw)
           boardId == BoardOf(msg)
           snapshot == Field(msg, "snapshot")
           extendedStr == [ExtendedMsg(msg, i) EXCEPT !.uid = accepted + 1, !.org = i]
           b == broadcast(clients[i], c, readyState, failing)
       IN  /\ boards' = [boards EXCEPT ![i] = BoardsSet(@, boardId, snapshot)]
           /\ lastVal' = [lastVal EXCEPT ![i][boardId] = snapshot]
           /\ accepted' = accepted + 1
           /\ ev' = Ev("ws", i, c, raw, b.sent, extendedStr, b.threw,
                       IF b.threw THEN <<>> ELSE <<extendedStr>>, <<>>, boards[i])
           /\ tasks' = IF b.threw THEN tasks
                       ELSE tasks \cup {[boardId |-> boardId, snapshot |-> snapshot,
                                         str |-> extendedStr, pc |-> "publish"]}

\* a last branch that sends the text back to the socket it came from
WsUnrecognisedEchoes(i, c, raw) ==
    /\ ~ParseThrows(raw)
    /\ ~FieldThrows(JSONparse(raw))
    /\ Field(JSONparse(raw), "type") \notin {"request_snapshot", "snapshot"}
    /\ ev' = Ev("ws", i, c, raw, <<c>>, raw, FALSE, <<>>, <<>>, boards[i])
    /\ UNCHANGED <<boards, tasks, accepted, lastVal>>

\* any other type, or none: console.log only
WsUnrecognised(i, c, raw) ==
    /\ ~ParseThrows(raw)
    /\ ~FieldThrows(JSONparse(raw))
    /\ Field(JSONparse(raw), "type") \notin {"request_snapshot", "snapshot"}
    /\ ev' = Ev("ws", i, c, raw, <<>>, NoPayload, FALSE, <<>>, <<>>, boards[i])
    /\ UNCHANGED <<boards, tasks, accepted, lastVal>>

\* a message event that waits until no handler of the instance is suspended
WsMessageWhenIdle(c, raw, failing) ==
    /\ readyState[c] = OPEN
    /\ ~\E t \in tasks : t.str.org = Home(c)
    /\ failing \in {NoConn} \cup Range(clients[Home(c)])
    /\ \/ WsBadJson(Home(c), c, raw)
       \/ WsTypeError(Home(c), c, raw)
       \/ WsRequest(Home(c), c, raw, failing)
       \/ WsSnapshot(Home(c), c, raw, failing)
       \/ WsUnrecognised(Home(c), c, raw)
    /\ UNCHANGED <<clients, readyState, gauge, bus, pgLog>>

\* one message event of open socket c
WsMessage(c, raw, failing) ==
    /\ readyState[c] = OPEN
    /\ failing \in {NoConn} \cup Range(clients[Home(c)])
    /\ \/ WsBadJson(Home(c), c, raw)
       \/ WsTypeError(Home(c), c, raw)
       \/ WsRequest(Home(c), c, raw, failing)
       \/ WsSnapshot(Home(c), c, raw, failing)
       \/ WsUnrecognised(Home(c), c, raw)
    /\ UNCHANGED <<clients, readyState, gauge, bus, pgLog>>

\* a continuation in which a failed publish ends the handler
PublishSettledOrAbort(t, ok) ==
    /\ t \in tasks
    /\ t.pc = "publish"
    /\ bus' = IF ok THEN bus \cup {t.str} ELSE bus
    /\ pgLog' = IF ok THEN Append(pgLog, [boardId |-> t.boardId, snapshot |-> t.snapshot,
                                          uid |-> t.str.uid, org |-> t.str.org])
                 ELSE pgLog
    /\ tasks' = IF ok THEN (tasks \ {t}) \cup {[t EXCEPT !.pc = "insert"]} ELSE tasks \ {t}
    /\ ev' = Ev(IF ok THEN "published" ELSE "publishFailed", t.str.org, NoConn, t.str, <<>>,
                NoPayload, FALSE, <<>>,
                IF ok THEN <<[boardId |-> t.boardId, snapshot |-> t.snapshot]>> ELSE <<>>,
                boards[t.str.org])
    /\ UNCHANGED <<boards, clients, readyState, gauge, accepted, lastVal>>

\* the continuation after `await redisPub.publish`: the publish succeeded (the
\* channel carries the text) or failed (caught and logged); either way the
\* INSERT is issued next
PublishSettled(t, ok) ==
    /\ t \in tasks
    /\ t.pc = "publish"
    /\ bus' = IF ok THEN bus \cup {t.str} ELSE bus
    /\ pgLog' = Append(pgLog, [boardId |-> t.boardId, snapshot |-> t.snapshot,
                               uid |-> t.str.uid, org |-> t.str.org])
    /\ tasks' = (tasks \ {t}) \cup {[t EXCEPT !.pc = "insert"]}
    /\ ev' = Ev(IF ok THEN "published" ELSE "publishFailed", t.str.org, NoConn, t.str, <<>>, NoPayload, FALSE, <<>>,
                <<[boardId |-> t.boardId, snapshot |-> t.snapshot]>>, boards[t.str.org])
    /\ UNCHANGED <<boards, clients, readyState, gauge, accepted, lastVal>>

\* the continuation after `await pool.query`: success, or failure caught and
\* logged; the handler returns
InsertSettled(t, ok) ==
    /\ t \in tasks
    /\ t.pc = "insert"
    /\ tasks' = tasks \ {t}
    /\ ev' = Ev(IF ok THEN "inserted" ELSE "insertFailed", t.str.org, NoConn, t.str, <<>>, NoPayload, FALSE, <<>>,
                <<>>, boards[t.str.org])
    /\ UNCHANGED <<boards, clients, readyState, gauge, bus, accepted, pgLog, lastVal>>

\* ------------------------------------------------ redisSub.subscribe handler
\* the try/catch around JSON.parse: the text is logged and dropped
BusBadJson(i, raw) ==
    /\ ParseThrows(raw)
    /\ ev' = Ev("bus", i, NoConn, raw, <<>>, NoPayload, FALSE, <<>>, <<>>, boards[i])
    /\ UNCHANGED <<boards, lastVal>>

\* msg is null: reading msg.nodeId throws and nothing catches it
BusTypeError(i, raw) ==
    /\ ~ParseThrows(raw)
    /\ FieldThrows(JSONparse(raw))
    /\ ev' = Ev("bus", i, NoConn, raw, <<>>, NoPayload, TRUE, <<>>, <<>>, boards[i])
    /\ UNCHANGED <<boards, lastVal>>

\* our own message: ignored
BusOwn(i, raw) ==
    /\ ~ParseThrows(raw)
    /\ ~FieldThrows(JSONparse(raw))
    /\ IsOwnMessage(JSONparse(raw), i)
    /\ ev' = Ev("bus", i, NoConn, raw, <<>>, NoPayload, FALSE, <<>>, <<>>, boards[i])
    /\ UNCHANGED <<boards, lastVal>>

\* anyone else's message: a snapshot goes to the store; the text as received
\* goes to every open local socket
BusRelay(i, raw, failing) ==
    /\ ~ParseThrows(raw)
    /\ ~FieldThrows(JSONparse(raw))
    /\ ~IsOwnMessage(JSONparse(raw), i)
    /\ LET msg == JSONparse(raw)
           isSnap == Field(msg, "type") = "snapshot"
           boardId == BoardOf(msg)
           b == broadcast(clients[i], NoConn, readyState, failing)
       IN  /\ boards' = IF isSnap
                        THEN [boards EXCEPT ![i] = BoardsSet(@, boardId, Field(msg, "snapshot"))]
                        ELSE boards
           /\ lastVal' = IF isSnap
                         THEN [lastVal EXCEPT ![i][boardId] = Field(msg, "snapshot")]
                         ELSE lastVal
           /\ ev' = Ev("bus", i, NoConn, raw, b.sent, raw, b.threw, <<>>, <<>>, boards[i])

\* One delivery of raw to the subscriber of instance i.  The channel hands a
\* text to every subscriber, the publisher's own included, in any order and
\* possibly more than once.
BusMessage(i, raw, failing) ==
    /\ failing \in {NoConn} \cup Range(clients[i])
    /\ \/ BusBadJson(i, raw)
       \/ BusTypeError(i, raw)
       \/ BusOwn(i, raw)
       \/ BusRelay(i, raw, failing)
    /\ UNCHANGED <<clients, readyState, gauge, tasks, bus, accepted, pgLog>>

\* ------------------------------------------------------------ specifications
\* the whole relay
Next ==
    \/ \E c \in ConnIds : Connect(c)
    \/ \E c \in ConnIds : BeginClose(c)
    \/ \E c \in ConnIds : Close(c)
    \/ \E c \in ConnIds, raw \in ClientOther : WsMessage(c, raw, NoConn)
    \/ \E c \in ConnIds, raw \in ClientRequests, failing \in {NoConn} \cup ConnIds :
          WsMessage(c, raw, failing)
    \/ \E c \in ConnIds, failing \in {NoConn} \cup ConnIds :
          /\ accepted < MaxUpdates
          /\ \E raw \in ClientSnapshots(accepted + 1) : WsMessage(c, raw, failing)
    \/ \E t \in tasks, ok \in BOOLEAN : PublishSettled(t, ok)
    \/ \E t \in tasks, ok \in BOOLEAN : InsertSettled(t, ok)
    \/ \E i \in Instances, raw \in bus \cup ForeignRaw, failing \in {NoConn} \cup ConnIds :
          BusMessage(i, raw, failing)

Spec == Init /\ [][Next]_vars

\* the update pipeline: every socket is connected and stays open
InitPipeline ==
    /\ boards = [i \in Instances |-> [b \in BoardKeys |-> NoEntry]]
    /\ clients = [i \in Instances |->
                    SelectSeq([c \in ConnIds |-> c], LAMBDA c : Home(c) = i)]
    /\ readyState = [c \in ConnIds |-> OPEN]
    /\ gauge = [i \in Instances |-> Cardinality({c \in ConnIds : Home(c) = i})]
    /\ tasks = {}
    /\ bus = {}
    /\ accepted = 0
    /\ pgLog = <<>>
    /\ lastVal = [i \in Instances |-> [b \in BoardKeys |-> NoEntry]]
    /\ ev = NoEv

NextPipeline ==
    \/ \E c \in ConnIds :
          /\ accepted < MaxPipeline
          /\ \E raw \in ClientSnapshots(accepted + 1) : WsMessage(c, raw, NoConn)
    \/ \E t \in tasks, ok \in BOOLEAN : PublishSettled(t, ok)
    \/ \E t \in tasks, ok \in BOOLEAN : InsertSettled(t, ok)
    \/ \E i \in Instances, raw \in bus \cup PeerRaw : BusMessage(i, raw, NoConn)

SpecPipeline == InitPipeline /\ [][NextPipeline]_vars

\* ------------------------------------------------------------------ claims
\* the open sockets of instance i
OpenAt(i) == {c \in Range(clients[i]) : readyState[c] = OPEN}
\* the store key the text of the last run names
EvKey == IF ev.raw.boardId \in Falsies THEN DefaultBoard ELSE ev.raw.boardId
\* the last run was a broadcast: of a client update, or of a channel message
EvBroadcast == \/ ev.op = "ws" /\ ev.out.uid > 0
               \/ ev.op = "bus" /\ ev.out.kind # "none"
\* the sockets a broadcast of the last run had to reach
EvTargets == {c \in OpenAt(ev.inst) : c # ev.conn}

\* C1: a channel message whose nodeId is the receiving instance's own NODE_ID,
\* whatever its type and however often it is delivered, leaves that instance's
\* store as it was and is sent to none of its sockets.
SelfEchoSuppressed ==
    (ev.op = "bus" /\ ev.raw.kind = "obj" /\ ev.raw.nodeId = ev.inst)
        => /\ boards[ev.inst] = ev.before
           /\ ev.sends = <<>>
           /\ ev.out = NoPayload

\* C1 witness: an instance's own published update came back to it while it had
\* an open socket
SelfEchoWitness ==
    /\ ev.op = "bus"
    /\ ev.raw.uid > 0
    /\ ev.raw.type = "snapshot"
    /\ ev.raw.nodeId = ev.inst
    /\ OpenAt(ev.inst) # {}
    /\ ev.sends = <<>>

\* C2: when an instance receives a snapshot published by another instance, it
\* stores the snapshot under the message's session and sends the message to
\* every socket of its own that is open, none excluded.
RemoteSnapshotStoredAndFannedOut ==
    (ev.op = "bus" /\ ev.raw.uid > 0 /\ ev.raw.org # ev.inst)
        => /\ boards[ev.inst][EvKey] = ev.raw.snapshot
           /\ ev.out = ev.raw
           /\ Range(ev.sends) = OpenAt(ev.inst)

\* C3: on every instance and for every session, the store holds the snapshot
\* of the update applied last, whether it came from a client or the channel;
\* right after a client update the store holds that update's snapshot.
LastWriteWins ==
    /\ \A i \in Instances, b \in BoardKeys : boards[i][b] = lastVal[i][b]
    /\ (ev.op = "ws" /\ ev.out.uid > 0) => boards[ev.inst][EvKey] = ev.raw.snapshot

\* C3 witness: update 1 and then update 2 were applied to the default session
\* of one instance, the peer's snapshot arrived in between, and the store
\* holds the snapshot of update 2
LastWriteWinsWitness ==
    /\ ev.op = "ws"
    /\ ev.out.uid = 2
    /\ EvKey = DefaultBoard
    /\ ev.before[DefaultBoard] = PeerSnap
    /\ \E t \in tasks : t.str.uid = 1 /\ t.str.org = ev.inst /\ t.boardId = DefaultBoard
    /\ boards[ev.inst][DefaultBoard] = SnapName[2]

\* C4: when the send to one of the N sockets a broadcast has to reach raises,
\* the other N - 1 are still sent the message.
BroadcastIsolatesSendFailure ==
    (EvBroadcast /\ ev.threw)
        => Cardinality(Range(ev.sends)) = Cardinality(EvTargets) - 1

\* C5: no exception leaves a handler, whatever the payload and whichever send
\* fails.
NoErrorEscapesHandler == ~ev.threw

\* C6: a request_snapshot for a session no update has been applied to on this
\* instance sends nothing, leaves the store without an entry for the session,
\* publishes nothing and logs nothing.
RequestWithoutSnapshotIsSilent ==
    (ev.op = "ws" /\ ev.raw.type = "request_snapshot" /\ lastVal[ev.inst][EvKey] = NoEntry)
        => /\ ev.sends = <<>>
           /\ ev.out = NoPayload
           /\ boards[ev.inst] = ev.before
           /\ boards[ev.inst][EvKey] = NoEntry
           /\ ev.pub = <<>>
           /\ ev.ins = <<>>

\* C6 witness: a request for a session without a snapshot, on an instance that
\* holds a snapshot of another session
RequestWithoutSnapshotWitness ==
    /\ ev.op = "ws"
    /\ ev.raw.type = "request_snapshot"
    /\ ev.raw.boardId = "b1"
    /\ lastVal[ev.inst]["b1"] = NoEntry
    /\ boards[ev.inst][DefaultBoard] = SnapName[1]
    /\ ev.sends = <<>>

\* C7: whenever the store holds an entry for the session, whatever its value,
\* a request_snapshot hands exactly one snapshot envelope with the session and
\* the stored value, without a nodeId, to the requester's send and to no other
\* socket, and changes, publishes and logs nothing.
RequestRepliesWithStoredSnapshot ==
    (ev.op = "ws" /\ ev.raw.type = "request_snapshot" /\ ev.before[EvKey] # NoEntry)
        => /\ ev.out = Payload("obj", "snapshot", EvKey, ev.before[EvKey], Undef, 0, Undef)
           /\ Range(ev.sends) \subseteq {ev.conn}
           /\ boards[ev.inst] = ev.before
           /\ ev.pub = <<>>
           /\ ev.ins = <<>>

\* C8: a client update is sent, with its session, its snapshot and the
\* accepting instance as nodeId, to every other open socket of that instance
\* and handed to exactly one publish; every other instance that receives the
\* published text stores the snapshot and sends the text on unchanged.
ClientUpdateRelayedEndToEnd ==
    /\ (ev.op = "ws" /\ ev.out.uid > 0)
         => /\ ev.out.boardId = ev.raw.boardId
            /\ ev.out.snapshot = ev.raw.snapshot
            /\ ev.out.nodeId = ev.inst
            /\ Range(ev.sends) = EvTargets
            /\ ev.pub = <<ev.out>>
    /\ (ev.op = "bus" /\ ev.raw.uid > 0 /\ ev.raw.org # ev.inst)
         => /\ boards[ev.inst][EvKey] = ev.raw.snapshot
            /\ ev.out = ev.raw
            /\ Range(ev.sends) = OpenAt(ev.inst)

\* C9: every accepted client update whose handler is no longer waiting for
\* its publish has had exactly one INSERT issued, whether the publish
\* succeeded or failed.
AcceptedUpdateLoggedOnce ==
    \A u \in 1 .. accepted :
        (~\E t \in tasks : t.str.uid = u /\ t.pc = "publish")
            => Cardinality({k \in 1 .. Len(pgLog) : pgLog[k].uid = u}) = 1

\* C10: no text built from a client update is sent to the socket the update
\* came from: the local broadcast leaves the sender out, and the channel's
\* copy is sent to no socket of the instance that accepted the update.
NoSelfEcho ==
    (ev.out.uid > 0 /\ ev.sends # <<>>)
        => /\ ev.op = "ws" => ev.conn \notin Range(ev.sends)
           /\ ev.op = "bus" => ev.out.org # ev.inst

\* C10 witness: the published text of update 1 came back to the instance that
\* accepted it, while the handler of update 2 was suspended
NoSelfEchoWitness ==
    /\ ev.op = "bus"
    /\ ev.raw.uid = 1
    /\ ev.raw.org = ev.inst
    /\ \E t \in tasks : t.str.uid = 2
    /\ ev.sends = <<>>

\* C11: for an accepted update the INSERT does not wait for the publish: while
\* the update's publish is still pending, its INSERT has already been issued.
AppendIssuedWhilePublishPending ==
    \A t \in tasks :
        t.pc = "publish" => \E k \in 1 .. Len(pgLog) : pgLog[k].uid = t.str.uid

\* the last run was a continuation of an update's handler after an await
EvSettled == ev.op \in {"published", "publishFailed", "inserted", "insertFailed"}

\* C12: in the run that accepts a client update the store holds the update's
\* snapshot whether or not the broadcast then raised; the publish is issued
\* only when the broadcast has reached every other open socket; the INSERT is
\* not issued in that run, and no INSERT exists for an update whose publish is
\* still pending; the later steps of the handler leave the store as it was.
StepOrderKept ==
    /\ (ev.op = "ws" /\ ev.out.uid > 0)
         => /\ boards[ev.inst][EvKey] = ev.raw.snapshot
            /\ ev.pub # <<>> => (~ev.threw /\ Range(ev.sends) = EvTargets)
            /\ ev.ins = <<>>
    /\ \A k \in 1 .. Len(pgLog) :
           ~\E t \in tasks : t.str.uid = pgLog[k].uid /\ t.pc = "publish"
    /\ EvSettled => boards[ev.inst] = ev.before

\* C12 witness: the broadcast of an accepted update raised: the store holds
\* the update's snapshot, and neither publish nor INSERT was issued
StepOrderWitness ==
    /\ ev.op = "ws"
    /\ ev.out.uid > 0
    /\ ev.threw
    /\ boards[ev.inst][EvKey] = ev.raw.snapshot
    /\ ev.before[EvKey] # ev.raw.snapshot
    /\ ev.pub = <<>>
    /\ pgLog = <<>>

\* C13: a step in which the publish or the INSERT of an update fails changes
\* neither store nor sockets, sends nothing to anyone, raises nothing and
\* issues no second publish; after a failed publish the update's INSERT is
\* issued all the same, after a failed INSERT the handler is over; no update
\* ever has more than one INSERT.
FailureSwallowed ==
    /\ [](\A u \in 1 .. accepted :
             Cardinality({k \in 1 .. Len(pgLog) : pgLog[k].uid = u}) <= 1)
    /\ [][ev'.op \in {"publishFailed", "insertFailed"}
            => /\ boards' = boards
               /\ readyState' = readyState
               /\ clients' = clients
               /\ bus' = bus
               /\ ev'.sends = <<>>
               /\ ev'.out = NoPayload
               /\ ~ev'.threw
               /\ ev'.pub = <<>>
               /\ ev'.op = "publishFailed"
                    => /\ Len(pgLog') = Len(pgLog) + 1
                       /\ pgLog'[Len(pgLog')].uid = ev'.raw.uid
                       /\ ev'.ins = <<[boardId |-> pgLog'[Len(pgLog')].boardId,
                                       snapshot |-> ev'.raw.snapshot]>>
               /\ ev'.op = "insertFailed"
                    => /\ pgLog' = pgLog
                       /\ ~\E t \in tasks' : t.str.uid = ev'.raw.uid]_vars

\* C13 witness: the publish of an update failed and then its INSERT failed;
\* the store holds the update's snapshot and a socket of the instance is open
FailureSwallowedWitness ==
    /\ ev.op = "insertFailed"
    /\ ev.raw \notin bus
    /\ boards[ev.inst][EvKey] = ev.raw.snapshot
    /\ \E k \in 1 .. Len(pgLog) : pgLog[k].uid = ev.raw.uid
    /\ OpenAt(ev.inst) # {}

\* C14: a step that handles a text that is not JSON, from a socket or from
\* the channel, changes nothing but the record of the step itself: no store,
\* no socket, no suspended handler, no channel text and no INSERT; it sends and
\* publishes nothing and raises nothing, so whatever comes next is handled in
\* the state the text found.
MalformedDiscardedAlone ==
    [][ev'.raw.kind = "bad"
         => /\ UNCHANGED <<boards, clients, readyState, gauge, tasks, bus, accepted,
                           pgLog, lastVal>>
            /\ ev'.op \in {"ws", "bus"}
            /\ ev'.sends = <<>>
            /\ ev'.out = NoPayload
            /\ ~ev'.threw
            /\ ev'.pub = <<>>
            /\ ev'.ins = <<>>]_vars

\* C14 witness: a socket of an instance with a stored snapshot and a suspended
\* handler sent a text that is not JSON, and is still open
MalformedDiscardedWitness ==
    /\ ev.op = "ws"
    /\ ev.raw.kind = "bad"
    /\ readyState[ev.conn] = OPEN
    /\ boards[ev.inst] # EmptyBoards
    /\ \E t \in tasks : t.str.org = ev.inst

\* C15: a client message that is an object whose type is neither snapshot nor
\* request_snapshot leaves every entry of the instance's store as it was, is
\* followed by no send to any socket, and hands nothing to publish or INSERT.
UnrecognisedTypeIsInert ==
    (ev.op = "ws" /\ ev.raw.kind = "obj"
        /\ ev.raw.type \notin {"snapshot", "request_snapshot"})
        => /\ boards[ev.inst] = ev.before
           /\ ev.sends = <<>>
           /\ ev.out = NoPayload
           /\ ev.pub = <<>>
           /\ ev.ins = <<>>
           /\ ~ev.threw

\* C15 witness: such a message arrived at an instance that holds a snapshot
\* and has another open socket
UnrecognisedTypeWitness ==
    /\ ev.op = "ws"
    /\ ev.raw.kind = "obj"
    /\ ev.raw.type = Undef
    /\ boards[ev.inst] # EmptyBoards
    /\ EvTargets # {}
    /\ ev.sends = <<>>

\* C16: while a handler of an instance is suspended at its publish or its
\* INSERT, a message event of any open socket of that instance and a delivery
\* of any channel text can run at once (up to MaxPipeline accepted updates),
\* and a run that happens meanwhile does all of its work: it writes the store
\* and sends to every socket its broadcast has to reach.
NeverBlocked ==
    /\ \A c \in ConnIds :
          ((\E t \in tasks : t.str.org = Home(c)) /\ accepted < MaxPipeline)
              => \A raw \in ClientSnapshots(accepted + 1) : ENABLED WsMessage(c, raw, NoConn)
    /\ \A i \in Instances, raw \in bus \cup PeerRaw : ENABLED BusMessage(i, raw, NoConn)
    /\ (EvBroadcast /\ \E t \in tasks : t.str.org = ev.inst /\ t.str.uid # ev.out.uid)
          => /\ boards[ev.inst][EvKey] = ev.raw.snapshot
             /\ Range(ev.sends) = EvTargets
             /\ ev.op = "ws" => ev.pub = <<ev.out>>

\* C16 witness: update 2 was accepted, stored and sent to another socket while
\* the handler of update 1 of the same instance was waiting for its publish
NeverBlockedWitness ==
    /\ ev.op = "ws"
    /\ ev.out.uid = 2
    /\ \E t \in tasks : t.str.uid = 1 /\ t.str.org = ev.inst /\ t.pc = "publish"
    /\ boards[ev.inst][EvKey] = ev.raw.snapshot
    /\ ev.sends # <<>>

\* C17: a send only ever goes to a socket that is open, and a closed socket is
\* no longer among the instance's clients and never leaves the closed state;
\* the step that closes a socket changes no store, no suspended handler, no
\* channel text, no INSERT and no other socket; a broadcast that does not
\* raise still reaches every other open socket; and every suspended handler
\* can go on, whatever has become of the sockets.
CloseIsTerminal ==
    /\ [](/\ \A k \in 1 .. Len(ev.sends) : readyState[ev.sends[k]] = OPEN
          /\ \A c \in ConnIds : readyState[c] = CLOSED => c \notin Range(clients[Home(c)])
          /\ (EvBroadcast /\ ~ev.threw) => Range(ev.sends) = EvTargets
          /\ \A t \in tasks : \/ t.pc = "publish" /\ ENABLED PublishSettled(t, TRUE)
                              \/ t.pc = "insert" /\ ENABLED InsertSettled(t, TRUE))
    /\ [][\A c \in ConnIds :
            /\ readyState[c] = CLOSED => readyState'[c] = CLOSED
            /\ (readyState[c] # CLOSED /\ readyState'[c] = CLOSED)
                 => /\ UNCHANGED <<boards, tasks, bus, pgLog, accepted, lastVal>>
                    /\ \A d \in ConnIds \ {c} : readyState'[d] = readyState[d]
                    /\ \A i \in Instances : clients'[i] = Remove(clients[i], c)]_vars

\* C17 witness: a broadcast reached an open socket of an instance one of whose
\* sockets is closed, while a handler of that instance was suspended
CloseIsTerminalWitness ==
    /\ EvBroadcast
    /\ ev.sends # <<>>
    /\ \E c \in ConnIds : readyState[c] = CLOSED /\ Home(c) = ev.inst
    /\ \E t \in tasks : t.str.org = ev.inst

\* C18: the text an instance broadcasts and publishes for a client update
\* carries that instance's NODE_ID as nodeId, whatever nodeId the client's
\* message had; so does every text of an update on the channel or held by a
\* suspended handler.
OriginTagged ==
    /\ (ev.op = "ws" /\ ev.out.uid > 0)
         => /\ ev.out.nodeId = ev.inst
            /\ \A k \in 1 .. Len(ev.pub) : ev.pub[k].nodeId = ev.inst
    /\ \A p \in bus : p.nodeId = p.org
    /\ \A t \in tasks : t.str.nodeId = t.str.org

\* C18 witness: a client of instance A sent an update tagged with B's NODE_ID;
\* the text sent to the other socket and handed to publish is tagged A
OriginTaggedWitness ==
    /\ ev.op = "ws"
    /\ ev.inst = "A"
    /\ ev.raw.type = "snapshot"
    /\ ev.raw.nodeId = "B"
    /\ ev.sends # <<>>
    /\ ev.pub # <<>>
    /\ ev.out.nodeId = "A"

\* C19: under snapshot traffic alone, every run that broadcasts an envelope
\* for a session leaves the instance's store holding that envelope's snapshot
\* for the session and the other sessions as they were, and every run that
\* broadcasts nothing leaves the store as it was; so the store always holds
\* the snapshot of the last envelope broadcast for each session.
StoreAgreesWithFanOut ==
    /\ EvBroadcast
         => /\ ev.out.type = "snapshot"
            /\ boards[ev.inst][EvKey] = ev.out.snapshot
            /\ \A b \in BoardKeys \ {EvKey} : boards[ev.inst][b] = ev.before[b]
    /\ (~EvBroadcast /\ ev.op # "none") => boards[ev.inst] = ev.before

\* C19 witness: with both client updates accepted, a snapshot from the channel
\* replaced a client's snapshot in the store and was sent to the open sockets
StoreAgreesWithFanOutWitness ==
    /\ ev.op = "bus"
    /\ EvBroadcast
    /\ accepted = MaxPipeline
    /\ ev.before[EvKey] \in {SnapName[1], SnapName[2]}
    /\ boards[ev.inst][EvKey] = ev.out.snapshot
    /\ ev.before[EvKey] # ev.out.snapshot
    /\ ev.sends # <<>>

\* C20: the INSERTs of one instance are issued in the order in which the
\* instance accepted the updates, in whatever order their publishes settle.
AppendsInAcceptanceOrder ==
    \A j, k \in 1 .. Len(pgLog) :
        (j < k /\ pgLog[j].org = pgLog[k].org) => pgLog[j].uid < pgLog[k].uid

====
